---- MODULE Spec2Model ----
(***************************************************************************)
(* CardDAV client of contact-manager's remote card repository             *)
(* (contact-manager/src/domain/card_repositories/remote_card_repository.rs)*)
(* : the multistatus response model and its serde deserialization, the     *)
(* three discovery operations fetch_current_user_principal_url,            *)
(* fetch_addressbook_home_set_url and fetch_addressbook_url, the           *)
(* deserialization of a record response, and the sync cycle of the design. *)
(*                                                                         *)
(*   Spec         the discovery chain                                      *)
(*   SpecRecords  deserialization of Multistatus<AddressDataProp>          *)
(*   SpecSync     the sync cycle (change check, record fetch, persist)     *)
(***************************************************************************)
EXTENDS Integers, Sequences, FiniteSets, TLC

VARIABLES host, arg, op, pc, io, requests, res, ret,
          rbody, rparsed,
          sync, stored, server, fetchedCtag, fetched, sreqs, snapshot, runs

dvars == <<host, arg, op, pc, io, requests, res, ret>>
rvars == <<rbody, rparsed>>
svars == <<sync, stored, server, fetchedCtag, fetched, sreqs, snapshot, runs>>
vars == <<dvars, rvars, svars>>

(***************************************************************************)
(* Bounds and input domains.                                               *)
(***************************************************************************)
\* Largest number of <response> elements in a multistatus body.
MaxResponses == 2
\* Largest number of sync cycles run one after the other.
MaxRuns == 2

Hosts == {"https://dav.example.com"}
Paths == {"/", "/dav/"}
Hrefs == {"/principals/alice/", "/addressbooks/alice/"}
StepStatuses == {"HTTP/1.1 200 OK", "HTTP/1.1 404 Not Found"}
Statuses == StepStatuses \cup {"HTTP/1.1 200 ok", "HTTP/1.1 200 OK "}
ValidDates == {"Tue, 01 Jul 2003 10:52:37 +0200", "1 Jul 2003 08:52:37 GMT"}
InvalidDates ==
    {"", "2003-07-01T10:52:37Z", "Wed, 01 Jul 2003 10:52:37 +0200",
     "Tue, 31 Jun 2003 10:52:37 +0200", "Tue, 01 Jul 2003 25:52:37 +0200"}
RecordList == <<"/addressbooks/alice/a.vcf", "/addressbooks/alice/b.vcf">>
RecordIds == {RecordList[i] : i \in 1..Len(RecordList)}
Etags == {"e1", "e2"}
Ctags == {"abc123", "xyz999"}

(***************************************************************************)
(* Option<T> and Result<T>.                                                *)
(***************************************************************************)
None == <<>>
Some(v) == <<v>>
Opt(S) == {None} \cup {Some(v) : v \in S}

Ok(v) == [tag |-> "Ok", val |-> v]
Err(c) == [tag |-> "Err", val |-> c]
Pending == [tag |-> "none", val |-> ""]

SeqsUpTo(S, n) == UNION {[1..k -> S] : k \in 0..n}

(***************************************************************************)
(* chrono's DateTime::parse_from_rfc2822, as date_parser::deserialize      *)
(* calls it, over the characters of the string:                            *)
(*   date-time = [ day-name "," ] day month year hour ":" minute           *)
(*               [ ":" second ] zone                                       *)
(* and the conversion of the parsed local time to the UTC instant.         *)
(***************************************************************************)
(* chrono's DateTime::parse_from_rfc2822, as date_parser::deserialize      *)
(* calls it, over the characters of the string:                            *)
(*   date-time = [ day-name "," ] day month year hour ":" minute           *)
(*               [ ":" second ] zone                                       *)
(* and the conversion of the parsed local time to the UTC instant.         *)
(***************************************************************************)
Ch(s, i) == IF i >= 1 /\ i <= Len(s) THEN SubSeq(s, i, i) ELSE ""

LowerOfUpper ==
    [A |-> "a", B |-> "b", C |-> "c", D |-> "d", E |-> "e", F |-> "f", G |-> "g",
     H |-> "h", I |-> "i", J |-> "j", K |-> "k", L |-> "l", M |-> "m", N |-> "n",
     O |-> "o", P |-> "p", Q |-> "q", R |-> "r", S |-> "s", T |-> "t", U |-> "u",
     V |-> "v", W |-> "w", X |-> "x", Y |-> "y", Z |-> "z"]

DigitValue ==
    ("0" :> 0) @@ ("1" :> 1) @@ ("2" :> 2) @@ ("3" :> 3) @@ ("4" :> 4) @@
    ("5" :> 5) @@ ("6" :> 6) @@ ("7" :> 7) @@ ("8" :> 8) @@ ("9" :> 9)

\* u8::to_ascii_lowercase
ToLower(c) == IF c \in DOMAIN LowerOfUpper THEN LowerOfUpper[c] ELSE c

IsDigit(c) == c \in DOMAIN DigitValue

IsAlpha(c) == ToLower(c) \in {LowerOfUpper[u] : u \in DOMAIN LowerOfUpper}

\* str::trim_left: the position of the first character at or after i that is
\* not a space.
RECURSIVE TrimLeft(_, _)
TrimLeft(s, i) == IF Ch(s, i) = " " THEN TrimLeft(s, i + 1) ELSE i

\* The number of digits at position i, at most max.
RECURSIVE DigitRun(_, _, _)
DigitRun(s, i, max) ==
    IF max > 0 /\ IsDigit(Ch(s, i)) THEN 1 + DigitRun(s, i + 1, max - 1) ELSE 0

RECURSIVE DigitsValue(_, _, _)
DigitsValue(s, i, n) ==
    IF n = 0 THEN 0
    ELSE 10 * DigitsValue(s, i, n - 1) + DigitValue[Ch(s, i + n - 1)]

\* The three characters at i, lower-cased.
Lower3(s, i) == ToLower(Ch(s, i)) \o ToLower(Ch(s, i + 1)) \o ToLower(Ch(s, i + 2))

RECURSIVE AlphaRun(_, _)
AlphaRun(s, i) == IF IsAlpha(Ch(s, i)) THEN 1 + AlphaRun(s, i + 1) ELSE 0

RECURSIVE LowerOf(_, _, _)
LowerOf(s, i, n) == IF n = 0 THEN "" ELSE ToLower(Ch(s, i)) \o LowerOf(s, i + 1, n - 1)

WeekdayIndex == [sun |-> 0, mon |-> 1, tue |-> 2, wed |-> 3, thu |-> 4, fri |-> 5, sat |-> 6]

MonthIndex ==
    [jan |-> 1, feb |-> 2, mar |-> 3, apr |-> 4, may |-> 5, jun |-> 6,
     jul |-> 7, aug |-> 8, sep |-> 9, oct |-> 10, nov |-> 11, dec |-> 12]

\* The zones of RFC 2822 with a name, in hours from UTC.
ZoneHours ==
    [ut |-> 0, gmt |-> 0, edt |-> -4, est |-> -5, cdt |-> -5, cst |-> -6,
     mdt |-> -6, mst |-> -7, pdt |-> -7, pst |-> -8]

IsLeapYear(y) == y % 4 = 0 /\ (y % 100 # 0 \/ y % 400 = 0)

DaysInMonth(y, m) ==
    IF m = 2 THEN (IF IsLeapYear(y) THEN 29 ELSE 28)
    ELSE IF m \in {4, 6, 9, 11} THEN 30 ELSE 31

\* Days from 1970-01-01 to the civil date y-m-d.
DaysFromCivil(y, m, d) ==
    LET yy == IF m <= 2 THEN y - 1 ELSE y
        era == yy \div 400
        yoe == yy - era * 400
        mp == IF m > 2 THEN m - 3 ELSE m + 9
        doy == (153 * mp + 2) \div 5 + d - 1
        doe == yoe * 365 + yoe \div 4 - yoe \div 100 + doy
    IN era * 146097 + doe - 719468

\* 0 = Sunday
WeekdayOf(y, m, d) == (DaysFromCivil(y, m, d) + 4) % 7

\* The parser's progress over the string s: pos is the position reached, ok
\* whether every item so far was there, n the digits of the number at pos,
\* wd the day of the week named (-1: none), offset the zone in seconds
\* (known: the zone gives one).
ParseStart(str) ==
    [s |-> str, ok |-> TRUE, pos |-> TrimLeft(str, 1), n |-> 0, wd |-> -1, day |-> 0,
     mon |-> 0, year |-> 0, hour |-> 0, min |-> 0, sec |-> 0, known |-> FALSE,
     offset |-> 0]

Failed(st) == [st EXCEPT !.ok = FALSE]

\* scan::space: at least one space, all of them consumed.
ScanSpace(st) ==
    IF ~st.ok \/ Ch(st.s, st.pos) # " " THEN Failed(st)
    ELSE [st EXCEPT !.pos = TrimLeft(st.s, st.pos)]

\* scan::number(s, min, max), the first half: the digits there are.
CountDigits(st, max) == [st EXCEPT !.n = DigitRun(st.s, st.pos, max)]

\* [ day-name "," ]
StepWeekday(st) ==
    IF Lower3(st.s, st.pos) \notin DOMAIN WeekdayIndex THEN st
    ELSE IF Ch(st.s, st.pos + 3) # "," THEN Failed(st)
    ELSE [st EXCEPT !.wd = WeekdayIndex[Lower3(st.s, st.pos)],
                    !.pos = TrimLeft(st.s, st.pos + 4)]

\* day: 1 or 2 digits
StepDay(st) ==
    IF ~st.ok \/ st.n < 1 THEN Failed(st)
    ELSE [st EXCEPT !.day = DigitsValue(st.s, st.pos, st.n), !.pos = st.pos + st.n]

\* month: a short name
StepMonth(st) ==
    IF ~st.ok \/ Lower3(st.s, st.pos) \notin DOMAIN MonthIndex THEN Failed(st)
    ELSE [st EXCEPT !.mon = MonthIndex[Lower3(st.s, st.pos)], !.pos = st.pos + 3]

\* year: 2 digits or more (2 digits: 00-49 are 20xx, 50-99 19xx; 3 digits:
\* 1900 + n)
StepYear(st) ==
    IF ~st.ok \/ st.n < 2 THEN Failed(st)
    ELSE [st EXCEPT !.year = IF st.n = 2 /\ DigitsValue(st.s, st.pos, st.n) <= 49
                             THEN DigitsValue(st.s, st.pos, st.n) + 2000
                             ELSE IF st.n \in {2, 3}
                             THEN DigitsValue(st.s, st.pos, st.n) + 1900
                             ELSE DigitsValue(st.s, st.pos, st.n),
                    !.pos = st.pos + st.n]

\* hour: 2 digits, then ":" between optional spaces
StepHour(st) ==
    IF ~st.ok \/ st.n < 2 \/ Ch(st.s, TrimLeft(st.s, st.pos + 2)) # ":" THEN Failed(st)
    ELSE [st EXCEPT !.hour = DigitsValue(st.s, st.pos, 2),
                    !.pos = TrimLeft(st.s, TrimLeft(st.s, st.pos + 2) + 1)]

\* minute: 2 digits
StepMinute(st) ==
    IF ~st.ok \/ st.n < 2 THEN Failed(st)
    ELSE [st EXCEPT !.min = DigitsValue(st.s, st.pos, 2), !.pos = st.pos + 2]

\* [ ":" second ]
StepSecond(st) ==
    IF ~st.ok \/ Ch(st.s, TrimLeft(st.s, st.pos)) # ":" THEN st
    ELSE IF DigitRun(st.s, TrimLeft(st.s, st.pos) + 1, 2) < 2 THEN Failed(st)
    ELSE [st EXCEPT !.sec = DigitsValue(st.s, TrimLeft(st.s, st.pos) + 1, 2),
                    !.pos = TrimLeft(st.s, st.pos) + 3]

\* scan::timezone_offset_2822: a name (one that is not a zone of RFC 2822
\* gives no offset), or a sign, 2 digits of hours and 2 of minutes; n is the
\* number of letters at pos.
StepZone(st) ==
    IF ~st.ok THEN st
    ELSE IF st.n > 0
    THEN [st EXCEPT !.known = LowerOf(st.s, st.pos, st.n) \in DOMAIN ZoneHours,
                    !.offset = IF LowerOf(st.s, st.pos, st.n) \in DOMAIN ZoneHours
                               THEN ZoneHours[LowerOf(st.s, st.pos, st.n)] * 3600
                               ELSE 0,
                    !.pos = st.pos + st.n]
    ELSE IF \/ Ch(st.s, st.pos) \notin {"+", "-"}
            \/ DigitRun(st.s, st.pos + 1, 4) < 4
            \/ DigitsValue(st.s, st.pos + 3, 2) > 59
    THEN Failed(st)
    ELSE [st EXCEPT !.known = TRUE,
                    !.offset = (IF Ch(st.s, st.pos) = "-" THEN -1 ELSE 1)
                                 * (DigitsValue(st.s, st.pos + 1, 2) * 3600
                                    + DigitsValue(st.s, st.pos + 3, 2) * 60),
                    !.pos = st.pos + 5]

CountLetters(st) == [st EXCEPT !.n = AlphaRun(st.s, st.pos)]

\* Parsed::to_datetime: nothing follows the zone, the fields are in range
\* and agree with one another; then the instant in UTC, in seconds since the
\* epoch (leap marks second 60).
ToDateTime(st) ==
    IF ~st.ok \/ st.pos # Len(st.s) + 1 \/ ~st.known THEN Err("invalid date")
    ELSE IF st.day < 1 \/ st.day > DaysInMonth(st.year, st.mon) THEN Err("invalid date")
    ELSE IF st.hour > 23 \/ st.min > 59 \/ st.sec > 60 THEN Err("invalid date")
    ELSE IF st.wd # -1 /\ WeekdayOf(st.year, st.mon, st.day) # st.wd
    THEN Err("invalid date")
    ELSE Ok([secs |-> DaysFromCivil(st.year, st.mon, st.day) * 86400 + st.hour * 3600
                        + st.min * 60 + (IF st.sec = 60 THEN 59 ELSE st.sec) - st.offset,
             leap |-> st.sec = 60])

DateSteps1(S) ==
    {StepMonth(e) : e \in {ScanSpace(d) : d \in {StepDay(c) : c \in
        {CountDigits(b, 2) : b \in {StepWeekday(a) : a \in S}}}}}

DateSteps2(S) ==
    {CountDigits(e, 2) : e \in {ScanSpace(d) : d \in {StepYear(c) : c \in
        {CountDigits(b, 9) : b \in {ScanSpace(a) : a \in S}}}}}

DateSteps3(S) ==
    {CountLetters(e) : e \in {ScanSpace(d) : d \in {StepSecond(c) : c \in
        {StepMinute(b) : b \in {CountDigits(a, 2) : a \in {StepHour(z) : z \in S}}}}}}

\* DateTime::parse_from_rfc2822(&s).map(|d| d.into())
ParseFromRfc2822(s) ==
    CHOOSE r \in {ToDateTime(b) : b \in {StepZone(a) : a \in
                    DateSteps3(DateSteps2(DateSteps1({ParseStart(s)})))}} : TRUE

(***************************************************************************)
(* Response bodies on the wire.  An XML element is a record of its child   *)
(* elements, each an Option (absent or present); the children of           *)
(* <multistatus> are the sequence of its <response> elements.  Element     *)
(* names with a dash are written with an underscore                        *)
(* (serde rename_all = "kebab-case").                                      *)
(***************************************************************************)
NoBody == [kind |-> "none", response |-> <<>>]
Malformed == [kind |-> "malformed", response |-> <<>>]
Xml(rs) == [kind |-> "xml", response |-> rs]

\* The <response> elements with an href of H, a <prop> of P and a <status>
\* of SO (None: no <status>), and one <response> without <propstat>.
WireEntriesAt(H, P, SO) ==
    [href : {Some(h) : h \in H},
     propstat : {Some(ps) : ps \in [prop : {Some(p) : p \in P}, status : SO]}]
        \cup {[href |-> Some(CHOOSE h \in H : TRUE), propstat |-> None]}

WireEntries(P, S) == WireEntriesAt(Hrefs, P, Opt(S))

WireHrefElem == {None, Some([href |-> None])} \cup {Some([href |-> Some(h)]) : h \in Hrefs}
WireCurrentUserPrincipalProp == [current_user_principal : WireHrefElem]
WireAddressbookHomeSetProp == [addressbook_home_set : WireHrefElem]
WireAddressbookProp ==
    [resourcetype : {None, Some([addressbook |-> None]), Some([addressbook |-> Some("")])}]
WireAddressDataProp ==
    [address_data : {Some("BEGIN:VCARD")}, getetag : {Some(e) : e \in Etags},
     getlastmodified : Opt(ValidDates \cup InvalidDates)]
WireCtagProp == [getctag : Opt(Ctags)]

Bodies(E) == {Malformed} \cup {Xml(rs) : rs \in SeqsUpTo(E, MaxResponses)}

(***************************************************************************)
(* Deserialization (serde derive + quick_xml::de::from_str).  A field of   *)
(* type Option is None when its element is absent; any other field whose   *)
(* element is absent is the error "missing field".  A Vec field is filled  *)
(* from the elements of its name and, having no serde default, is a        *)
(* missing field too when there is no such element.                        *)
(***************************************************************************)
MissingField(f) == Err("missing field " \o f)

\* struct Href { value: String }
ParseHref(w) ==
    IF w = None THEN MissingField("href") ELSE Ok([value |-> w[1]])

\* struct Status { value: String }, held as Option<Status>
ParseStatus(w) ==
    IF w = None THEN None ELSE Some([value |-> w[1]])

\* struct CurrentUserPrincipal { href: Href } / struct AddressbookHomeSet { href: Href }
ParseHrefElem(w, name) ==
    IF w = None THEN MissingField(name)
    ELSE LET h == ParseHref(w[1].href)
         IN IF h.tag = "Err" THEN h ELSE Ok([href |-> h.val])

\* struct CurrentUserPrincipalProp { current_user_principal: CurrentUserPrincipal }
ParseCurrentUserPrincipalProp(w) ==
    LET p == ParseHrefElem(w.current_user_principal, "current-user-principal")
    IN IF p.tag = "Err" THEN p ELSE Ok([current_user_principal |-> p.val])

\* struct AddressbookHomeSetProp { addressbook_home_set: AddressbookHomeSet }
ParseAddressbookHomeSetProp(w) ==
    LET p == ParseHrefElem(w.addressbook_home_set, "addressbook-home-set")
    IN IF p.tag = "Err" THEN p ELSE Ok([addressbook_home_set |-> p.val])

\* struct AddressbookResourceType { addressbook: Option<Addressbook> }
ParseAddressbookResourceType(w) ==
    [addressbook |-> IF w.addressbook = None THEN None ELSE Some("Addressbook")]

\* struct AddressbookProp { resourcetype: AddressbookResourceType }
ParseAddressbookProp(w) ==
    IF w.resourcetype = None THEN MissingField("resourcetype")
    ELSE Ok([resourcetype |-> ParseAddressbookResourceType(w.resourcetype[1])])

\* date_parser::deserialize: the string, then parse_from_rfc2822, its error
\* mapped to the deserializer's
date_parser_deserialize_default(str) ==
    CHOOSE r \in {IF d.tag = "Err" THEN Ok([secs |-> 0, leap |-> FALSE]) ELSE d
                    : d \in {ParseFromRfc2822(str)}} : TRUE

date_parser_deserialize(str) ==
    CHOOSE r \in {IF d.tag = "Err" THEN Err("invalid date") ELSE d
                    : d \in {ParseFromRfc2822(str)}} : TRUE

\* struct LastModified { #[serde(with = "date_parser")] value: DateTime<Utc> }
ParseLastModified(w) ==
    IF w = None THEN MissingField("getlastmodified")
    ELSE CHOOSE r \in {IF d.tag = "Err" THEN d ELSE Ok([value |-> d.val])
                         : d \in {date_parser_deserialize(w[1])}} : TRUE

\* struct AddressDataProp { address_data: AddressData, getetag: Etag,
\*                          getlastmodified: LastModified }
ParseAddressDataProp(w) ==
    IF w.address_data = None THEN MissingField("address-data")
    ELSE IF w.getetag = None THEN MissingField("getetag")
    ELSE CHOOSE r \in {IF lm.tag = "Err" THEN lm
                       ELSE Ok([address_data |-> [value |-> w.address_data[1]],
                                getetag |-> [value |-> w.getetag[1]],
                                getlastmodified |-> lm.val])
                         : lm \in {ParseLastModified(w.getlastmodified)}} : TRUE

\* struct CtagProp { getctag: Ctag }
ParseCtagProp(w) ==
    IF w.getctag = None THEN MissingField("getctag")
    ELSE Ok([getctag |-> [value |-> w.getctag[1]]])

\* The property type T of Multistatus<T>, by name.
ParseProp(T, w) ==
    CASE T = "CurrentUserPrincipalProp" -> ParseCurrentUserPrincipalProp(w)
      [] T = "AddressbookHomeSetProp" -> ParseAddressbookHomeSetProp(w)
      [] T = "AddressbookProp" -> ParseAddressbookProp(w)
      [] T = "AddressDataProp" -> ParseAddressDataProp(w)
      [] T = "CtagProp" -> ParseCtagProp(w)

\* struct Propstat<T> { prop: T, status: Option<Status> }
ParsePropstat(T, w) ==
    IF w.prop = None THEN MissingField("prop")
    ELSE CHOOSE r \in {IF p.tag = "Err" THEN p
                       ELSE Ok([prop |-> p.val, status |-> ParseStatus(w.status)])
                         : p \in {ParseProp(T, w.prop[1])}} : TRUE

\* struct Response<T> { href: Href, propstat: Propstat<T> }
ParseResponse(T, w) ==
    IF w.href = None THEN MissingField("href")
    ELSE IF w.propstat = None THEN MissingField("propstat")
    ELSE CHOOSE r \in {IF ps.tag = "Err" THEN ps
                       ELSE Ok([href |-> ParseHref(w.href).val, propstat |-> ps.val])
                         : ps \in {ParsePropstat(T, w.propstat[1])}} : TRUE

\* The first error of a sequence of results, or the sequence of their values.
Collect(rs) ==
    LET bad == {i \in 1..Len(rs) : rs[i].tag = "Err"}
    IN IF bad # {} THEN rs[CHOOSE i \in bad : \A j \in bad : i <= j]
       ELSE Ok([i \in 1..Len(rs) |-> rs[i].val])

\* struct Multistatus<T> { #[serde(rename = "response")] responses: Vec<Response<T>> }
ParseMultistatus(T, body) ==
    IF body.kind # "xml" THEN Err("syntax error")
    ELSE IF Len(body.response) = 0 THEN MissingField("response")
    ELSE CHOOSE r \in {IF rs.tag = "Err" THEN rs ELSE Ok([responses |-> rs.val])
                         : rs \in {Collect([i \in 1..Len(body.response) |->
                                              ParseResponse(T, body.response[i])])}} : TRUE

(***************************************************************************)
(* Methods.                                                                *)
(***************************************************************************)
propfind_as_report == "REPORT"

\* Method::from_bytes(b"PROPFIND"): a valid method token, so always Ok
propfind == "PROPFIND"

\* Method::from_bytes(b"REPORT")
report == "REPORT"

\* str::ends_with
EndsWith(s, t) ==
    Len(s) >= Len(t) /\ SubSeq(s, Len(s) - Len(t) + 1, Len(s)) = t

\* format!("{}{}", host, path)
Format(h, p) == h \o p

(***************************************************************************)
(* What each operation returns from the text of the response body.         *)
(***************************************************************************)
\* res.responses.first().map(|res| ...current_user_principal.href.value).unwrap_or(path)
first_current_user_principal(m, path) ==
    IF Len(m.responses) > 0
    THEN m.responses[1].propstat.prop.current_user_principal.href.value
    ELSE path

fetch_current_user_principal_url_body_or_path(body, path) ==
    LET m == ParseMultistatus("CurrentUserPrincipalProp", body)
    IN IF m.tag = "Err" THEN Ok(path)
       ELSE Ok(first_current_user_principal(m.val, path))

\* xml::from_str(&res).context(...)?, then Ok(...)
fetch_current_user_principal_url_body(body, path) ==
    LET m == ParseMultistatus("CurrentUserPrincipalProp", body)
    IN IF m.tag = "Err" THEN Err("cannot parse current user principal response")
       ELSE Ok(first_current_user_principal(m.val, path))

\* res.responses.first().map(|res| ...addressbook_home_set.href.value).unwrap_or(path)
first_addressbook_home_set(m, path) ==
    IF Len(m.responses) > 0
    THEN m.responses[1].propstat.prop.addressbook_home_set.href.value
    ELSE path

\* xml::from_str(&res).context(...)?, then Ok(...)
fetch_addressbook_home_set_url_body(body, path) ==
    LET m == ParseMultistatus("AddressbookHomeSetProp", body)
    IN IF m.tag = "Err" THEN Err("cannot parse addressbook home set response")
       ELSE Ok(first_addressbook_home_set(m.val, path))

\* the closure given to find: valid_status && has_addressbook
is_addressbook(r) ==
    LET valid_status ==
            IF r.propstat.status = None THEN FALSE
            ELSE EndsWith(r.propstat.status[1].value, "200 OK")
        has_addressbook == r.propstat.prop.resourcetype.addressbook # None
    IN valid_status /\ has_addressbook

find_addressbook_last(m, path) ==
    LET hits == {i \in 1..Len(m.responses) : is_addressbook(m.responses[i])}
    IN IF hits # {}
       THEN m.responses[CHOOSE i \in hits : \A j \in hits : i >= j].href.value
       ELSE path

\* res.responses.iter().find(...).map(|res| res.href.value).unwrap_or(path)
find_addressbook(m, path) ==
    LET hits == {i \in 1..Len(m.responses) : is_addressbook(m.responses[i])}
    IN IF hits # {}
       THEN m.responses[CHOOSE i \in hits : \A j \in hits : i <= j].href.value
       ELSE path

\* xml::from_str(&res).context(...)?, then Ok(...)
fetch_addressbook_url_body(body, path) ==
    LET m == ParseMultistatus("AddressbookProp", body)
    IN IF m.tag = "Err" THEN Err("cannot parse addressbook response")
       ELSE Ok(find_addressbook(m.val, path))

(***************************************************************************)
(* The request URL of each operation.                                      *)
(***************************************************************************)
fetch_current_user_principal_url_target(h, path) == Format(h, path)

fetch_addressbook_home_set_url_target(h, path) == Format(h, path)

fetch_addressbook_url_target(h, path) == h

(***************************************************************************)
(* State.  op is the operation in progress (1 principal, 2 home set,       *)
(* 3 addressbook), arg[k] the path given to operation k, pc its position:  *)
(* "start" before the request is sent, "sent" while the response is        *)
(* awaited, "body" once the text is read into res, "done" once it has      *)
(* returned ret[k].  io records what the transport did for the operation.  *)
(***************************************************************************)
Ops == 1..3

NoIo == [send |-> "pending", text |-> "pending"]

NoEtags == [r \in RecordIds |-> ""]

DiscoveryInit ==
    /\ host \in Hosts
    /\ arg \in {[k \in Ops |-> IF k = 1 THEN p ELSE ""] : p \in Paths}
    /\ op = 1
    /\ pc = "start"
    /\ io = NoIo
    /\ requests = <<>>
    /\ res = NoBody
    /\ ret = [k \in Ops |-> Pending]

RecordsIdle ==
    /\ rbody = NoBody
    /\ rparsed = Pending

SyncIdle ==
    /\ sync = "Idle"
    /\ stored = [ctag |-> "", etags |-> NoEtags]
    /\ server = [ctag |-> "abc123", etags |-> [r \in RecordIds |-> "e1"]]
    /\ fetchedCtag = ""
    /\ fetched = NoEtags
    /\ sreqs = <<>>
    /\ snapshot = stored
    /\ runs = 0

Init == DiscoveryInit /\ RecordsIdle /\ SyncIdle

\* client.request(method, url).basic_auth(..).body(body).send().await.context(ctx)?
Send(k, method, url, body, ctx) ==
    /\ op = k
    /\ pc = "start"
    /\ requests' = Append(requests, [op |-> k, method |-> method, url |-> url, body |-> body])
    /\ \E ok \in BOOLEAN :
          IF ok
          THEN /\ io' = [io EXCEPT !.send = "ok"]
               /\ pc' = "sent"
               /\ ret' = ret
          ELSE /\ io' = [io EXCEPT !.send = "failed"]
               /\ pc' = "done"
               /\ ret' = [ret EXCEPT ![k] = Err(ctx)]
    /\ UNCHANGED <<host, arg, op, res, rvars, svars>>

\* res.text().await.context(ctx)?
Text(k, E, ctx) ==
    /\ op = k
    /\ pc = "sent"
    /\ \/ /\ io' = [io EXCEPT !.text = "failed"]
          /\ pc' = "done"
          /\ ret' = [ret EXCEPT ![k] = Err(ctx)]
          /\ res' = res
       \/ /\ io' = [io EXCEPT !.text = "ok"]
          /\ pc' = "body"
          /\ res' \in Bodies(E)
          /\ ret' = ret
    /\ UNCHANGED <<host, arg, op, requests, rvars, svars>>

\* xml::from_str(&res).context(ctx)?  and the value returned
Return(k, result) ==
    /\ op = k
    /\ pc = "body"
    /\ pc' = "done"
    /\ ret' = [ret EXCEPT ![k] = result]
    /\ UNCHANGED <<host, arg, op, io, requests, res, rvars, svars>>

fetch_current_user_principal_url_send ==
    Send(1, propfind, fetch_current_user_principal_url_target(host, arg[1]),
         "<D:propfind><D:prop><D:current-user-principal />",
         "cannot send current user principal request")

fetch_current_user_principal_url_text ==
    Text(1, WireEntries(WireCurrentUserPrincipalProp, StepStatuses),
         "cannot extract text body from current user principal response")

fetch_current_user_principal_url_return ==
    Return(1, fetch_current_user_principal_url_body(res, arg[1]))

fetch_addressbook_home_set_url_send ==
    Send(2, propfind, fetch_addressbook_home_set_url_target(host, arg[2]),
         "<D:propfind><D:prop><C:addressbook-home-set />",
         "cannot send addressbook home set request")

fetch_addressbook_home_set_url_text ==
    Text(2, WireEntries(WireAddressbookHomeSetProp, StepStatuses),
         "cannot extract text body from addressbook home set response")

fetch_addressbook_home_set_url_return ==
    Return(2, fetch_addressbook_home_set_url_body(res, arg[2]))

fetch_addressbook_url_send ==
    Send(3, propfind, fetch_addressbook_url_target(host, arg[3]), "",
         "cannot send addressbook request")

fetch_addressbook_url_text ==
    Text(3, WireEntries(WireAddressbookProp, Statuses),
         "cannot extract text body from addressbook response")

fetch_addressbook_url_return ==
    Return(3, fetch_addressbook_url_body(res, arg[3]))

\* The caller of the chain: the path an operation resolved is the path given
\* to the next one; an error ends the chain.
Chain ==
    /\ pc = "done"
    /\ op < 3
    /\ ret[op].tag = "Ok"
    /\ op' = op + 1
    /\ arg' = [arg EXCEPT ![op + 1] = ret[op].val]
    /\ pc' = "start"
    /\ io' = NoIo
    /\ res' = NoBody
    /\ UNCHANGED <<host, requests, ret, rvars, svars>>

Next ==
    \/ fetch_current_user_principal_url_send
    \/ fetch_current_user_principal_url_text
    \/ fetch_current_user_principal_url_return
    \/ fetch_addressbook_home_set_url_send
    \/ fetch_addressbook_home_set_url_text
    \/ fetch_addressbook_home_set_url_return
    \/ fetch_addressbook_url_send
    \/ fetch_addressbook_url_text
    \/ fetch_addressbook_url_return
    \/ Chain

Spec == Init /\ [][Next]_vars

(***************************************************************************)
(* Deserialization of a record response,                                   *)
(* xml::from_str::<Multistatus<AddressDataProp>>: rbody is the body,       *)
(* rparsed the result.                                                     *)
(***************************************************************************)
RecordEntries == WireEntriesAt(RecordIds, WireAddressDataProp, {Some("HTTP/1.1 200 OK")})

RecordsInit ==
    /\ DiscoveryInit
    /\ arg[1] = "/"
    /\ SyncIdle
    /\ rbody \in Bodies(RecordEntries)
    /\ rparsed = Pending

DeserializeRecords ==
    /\ rparsed = Pending
    /\ rparsed' = ParseMultistatus("AddressDataProp", rbody)
    /\ UNCHANGED <<rbody, dvars, svars>>

RecordsNext == DeserializeRecords

SpecRecords == RecordsInit /\ [][RecordsNext]_vars

(***************************************************************************)
(* The sync cycle of the design:                                           *)
(*   Idle -> DiscoveryInFlight -> ChangeCheck -> UpToDate                  *)
(*                                            -> RecordsFetching           *)
(*                                               -> Reconciling -> Persisted *)
(* with Failed from any state on a hard error.  stored is what the caller  *)
(* persists (the change tag and the tag of each record), server what the   *)
(* server holds, sreqs the methods of the requests of the cycle, snapshot  *)
(* the value of stored when the cycle began.                               *)
(***************************************************************************)
Collection == "/addressbooks/alice/"

Entry(h, p) ==
    [href |-> Some(h),
     propstat |-> Some([prop |-> Some(p), status |-> Some("HTTP/1.1 200 OK")])]

CtagBodies(tag) ==
    {Malformed, Xml(<<>>), Xml(<<Entry(Collection, [getctag |-> None])>>),
     Xml(<<Entry(Collection, [getctag |-> Some(tag)])>>)}

RecordBodies(etags) ==
    {Malformed} \cup
    {Xml([i \in 1..Len(RecordList) |->
            Entry(RecordList[i],
                  [address_data |-> Some("BEGIN:VCARD"),
                   getetag |-> Some(etags[RecordList[i]]),
                   getlastmodified |-> Some(IF i = 1 THEN d ELSE "1 Jul 2003 08:52:37 GMT")])])
        : d \in {"Tue, 01 Jul 2003 10:52:37 +0200", "2003-07-01T10:52:37Z"}}

\* The state after the change check: the fetched tag against the stored one.
after_change_check_inverted(fetchedTag, storedTag) ==
    IF fetchedTag = storedTag THEN "RecordsFetching" ELSE "UpToDate"

after_change_check(fetchedTag, storedTag) ==
    IF fetchedTag = storedTag THEN "UpToDate" ELSE "RecordsFetching"

\* The tag of each record of a parsed record response.
tags_of(m) ==
    [r \in RecordIds |->
        IF \E i \in 1..Len(m.responses) : m.responses[i].href.value = r
        THEN m.responses[CHOOSE i \in 1..Len(m.responses) : m.responses[i].href.value = r]
                .propstat.prop.getetag.value
        ELSE ""]

SyncInit ==
    /\ DiscoveryInit
    /\ arg[1] = "/"
    /\ RecordsIdle
    /\ sync = "Idle"
    /\ server \in [ctag : Ctags, etags : [RecordIds -> Etags]]
    /\ stored \in {[ctag |-> "", etags |-> NoEtags], server}
    /\ fetchedCtag = ""
    /\ fetched = NoEtags
    /\ sreqs = <<>>
    /\ snapshot = stored
    /\ runs = 0

StartSync ==
    /\ sync = "Idle"
    /\ runs < MaxRuns
    /\ sync' = "DiscoveryInFlight"
    /\ sreqs' = <<>>
    /\ snapshot' = stored
    /\ fetchedCtag' = ""
    /\ fetched' = NoEtags
    /\ UNCHANGED <<stored, server, runs, dvars, rvars>>

\* The three operations of the chain, each one PROPFIND; the chain ends at
\* the first that fails.
DiscoveryResolves ==
    /\ sync = "DiscoveryInFlight"
    /\ \E n \in 1..3, ok \in BOOLEAN :
          /\ (ok => n = 3)
          /\ sreqs' = sreqs \o [i \in 1..n |-> propfind]
          /\ sync' = IF ok THEN "ChangeCheck" ELSE "Failed"
    /\ UNCHANGED <<stored, server, fetchedCtag, fetched, snapshot, runs, dvars, rvars>>

\* fetchChangeTag, then the comparison with the stored tag.
ChangeCheck ==
    /\ sync = "ChangeCheck"
    /\ sreqs' = Append(sreqs, propfind)
    /\ \E body \in CtagBodies(server.ctag) :
          LET m == ParseMultistatus("CtagProp", body)
          IN IF m.tag = "Err"
             THEN /\ sync' = "Failed"
                  /\ fetchedCtag' = fetchedCtag
             ELSE /\ fetchedCtag' = m.val.responses[1].propstat.prop.getctag.value
                  /\ sync' = after_change_check(fetchedCtag', stored.ctag)
    /\ UNCHANGED <<stored, server, fetched, snapshot, runs, dvars, rvars>>

\* fetchAllRecords: one REPORT, the whole response parsed or the fetch fails.
FetchAllRecords ==
    /\ sync = "RecordsFetching"
    /\ sreqs' = Append(sreqs, report)
    /\ \E body \in RecordBodies(server.etags) :
          LET m == ParseMultistatus("AddressDataProp", body)
          IN IF m.tag = "Err"
             THEN /\ sync' = "Failed"
                  /\ fetched' = fetched
             ELSE /\ sync' = "Reconciling"
                  /\ fetched' = tags_of(m.val)
    /\ UNCHANGED <<stored, server, fetchedCtag, snapshot, runs, dvars, rvars>>

Reconcile ==
    /\ sync = "Reconciling"
    /\ stored' = [ctag |-> fetchedCtag, etags |-> fetched]
    /\ sync' = "Persisted"
    /\ UNCHANGED <<server, fetchedCtag, fetched, sreqs, snapshot, runs, dvars, rvars>>

EndCycle ==
    /\ sync \in {"UpToDate", "Persisted", "Failed"}
    /\ sync' = "Idle"
    /\ runs' = runs + 1
    /\ UNCHANGED <<stored, server, fetchedCtag, fetched, sreqs, snapshot, dvars, rvars>>

\* A record changes on the server, and the change tag of the collection with it.
ServerChange ==
    /\ \E t \in Ctags \ {server.ctag}, r \in RecordIds :
          \E e \in Etags \ {server.etags[r]} :
              server' = [ctag |-> t, etags |-> [server.etags EXCEPT ![r] = e]]
    /\ UNCHANGED <<sync, stored, fetchedCtag, fetched, sreqs, snapshot, runs, dvars, rvars>>

SyncNext ==
    \/ StartSync
    \/ DiscoveryResolves
    \/ ChangeCheck
    \/ FetchAllRecords
    \/ Reconcile
    \/ EndCycle
    \/ ServerChange

SpecSync == SyncInit /\ [][SyncNext]_vars


(***************************************************************************)
(* The entries of the body an operation has read, as the server sent them. *)
(***************************************************************************)
Returned(k) == op = k /\ pc = "done"

ReadBody(k) == Returned(k) /\ io.text = "ok"

\* The body is a multistatus document with exactly one <response>, which
\* carries a <prop> that lacks the property element operation k asks for.
SingleEntryWithoutProperty(k) ==
    /\ res.kind = "xml"
    /\ Len(res.response) = 1
    /\ res.response[1].propstat # None
    /\ res.response[1].propstat[1].prop # None
    /\ IF k = 1
       THEN res.response[1].propstat[1].prop[1].current_user_principal = None
       ELSE res.response[1].propstat[1].prop[1].addressbook_home_set = None

\* C1: fallback law of steps 1 and 2: when the response has a single entry
\* that carries no current-user-principal (step 1) or addressbook-home-set
\* (step 2) element, the operation returns Ok(path), the path it was given.
C1_FallbackLaw ==
    \A k \in {1, 2} :
        (ReadBody(k) /\ SingleEntryWithoutProperty(k)) => ret[k] = Ok(arg[k])

\* A <response> as sent, with a status that is present and ends with "200 OK"
\* and the <addressbook/> marker inside its <resourcetype>.
SentAsAddressbook(e) ==
    /\ e.propstat # None
    /\ e.propstat[1].status # None
    /\ EndsWith(e.propstat[1].status[1], "200 OK")
    /\ e.propstat[1].prop # None
    /\ e.propstat[1].prop[1].resourcetype # None
    /\ e.propstat[1].prop[1].resourcetype[1].addressbook # None

\* Every <response> of the body has the shape Response<AddressbookProp>.
WellFormedAddressbookBody ==
    /\ res.kind = "xml"
    /\ \A i \in 1..Len(res.response) :
          /\ res.response[i].href # None
          /\ res.response[i].propstat # None
          /\ res.response[i].propstat[1].prop # None
          /\ res.response[i].propstat[1].prop[1].resourcetype # None

\* C2: first match of step 3: when some entry of the response has a present
\* status ending with "200 OK" and the addressbook marker, the path returned
\* is the href of the first such entry in the order the server sent them; an
\* entry without a status is passed over.
C2_FirstMatch ==
    (ReadBody(3) /\ WellFormedAddressbookBody) =>
        \A i \in 1..Len(res.response) :
            (/\ SentAsAddressbook(res.response[i])
             /\ \A j \in 1..(i - 1) : ~SentAsAddressbook(res.response[j]))
                => ret[3] = Ok(res.response[i].href[1])

\* Two entries match, with different hrefs, and the first one's is returned.
C2_Witness ==
    /\ ReadBody(3)
    /\ Len(res.response) = 2
    /\ SentAsAddressbook(res.response[1])
    /\ SentAsAddressbook(res.response[2])
    /\ res.response[1].href # res.response[2].href
    /\ ret[3] = Ok(res.response[1].href[1])

\* C3: no-match fallback of step 3: for every response sequence in which no
\* single entry has both a status ending with "200 OK" and the addressbook
\* marker, the operation returns Ok(path), the path it was given.
C3_NoMatchFallback ==
    (/\ ReadBody(3)
     /\ res.kind = "xml"
     /\ \A i \in 1..Len(res.response) :
           /\ res.response[i].propstat # None
           /\ res.response[i].propstat[1].prop[1].resourcetype # None
           /\ ~SentAsAddressbook(res.response[i]))
        => ret[3] = Ok(arg[3])

\* What holds of C3's fallback: it is taken for every response sequence with at
\* least one entry, none of which has both the status and the marker.
NonEmptyNoMatchFallback ==
    (/\ ReadBody(3)
     /\ WellFormedAddressbookBody
     /\ Len(res.response) > 0
     /\ \A i \in 1..Len(res.response) : ~SentAsAddressbook(res.response[i]))
        => ret[3] = Ok(arg[3])

\* One entry with 404 and the marker, one with 200 and no marker, neither at
\* the path given, and the path given is returned.
NonEmptyNoMatchFallbackWitness ==
    /\ ReadBody(3)
    /\ Len(res.response) = 2
    /\ res.response[1].href # Some(arg[3])
    /\ res.response[2].href # Some(arg[3])
    /\ res.response[1].propstat
          = Some([prop |-> Some([resourcetype |-> Some([addressbook |-> Some("")])]),
                  status |-> Some("HTTP/1.1 404 Not Found")])
    /\ res.response[2].propstat
          = Some([prop |-> Some([resourcetype |-> Some([addressbook |-> None])]),
                  status |-> Some("HTTP/1.1 200 OK")])
    /\ ret[3] = Ok(arg[3])

\* C4: a multistatus body with zero <response> elements is no error: the
\* operation that read it returns Ok(path), the path it was given.
C4_EmptyMultistatus ==
    \A k \in Ops : (ReadBody(k) /\ res = Xml(<<>>)) => ret[k] = Ok(arg[k])

\* C5: every operation of the chain sends its request to host + the path it
\* was given (the path the previous operation resolved).
C5_ChainTargets ==
    \A i \in 1..Len(requests) :
        requests[i].url = host \o arg[requests[i].op]

\* The body of operation k does not have the shape Multistatus<T> of its T.
Undeserializable(k) ==
    CASE k = 1 -> ParseMultistatus("CurrentUserPrincipalProp", res).tag = "Err"
      [] k = 2 -> ParseMultistatus("AddressbookHomeSetProp", res).tag = "Err"
      [] k = 3 -> ParseMultistatus("AddressbookProp", res).tag = "Err"

\* C6: hard errors are not downgraded: an operation whose request could not
\* be sent, whose response text could not be read or whose body could not be
\* parsed returns an error, never a path.
C6_HardErrors ==
    \A k \in Ops :
        (/\ Returned(k)
         /\ \/ io.send = "failed"
            \/ io.text = "failed"
            \/ io.text = "ok" /\ Undeserializable(k))
            => ret[k].tag = "Err"

\* The body could not be parsed and the operation returned the parse error.
C6_Witness ==
    /\ Returned(2)
    /\ io.text = "ok"
    /\ res.kind = "xml"
    /\ Undeserializable(2)
    /\ ret[2] = Err("cannot parse addressbook home set response")

\* C7: status before properties: the entry an operation takes its path from
\* has no status or a status that indicates success ("... 200 OK").
C7_StatusChecked ==
    /\ \A k \in {1, 2} :
          (ReadBody(k) /\ ret[k].tag = "Ok" /\ Len(res.response) > 0)
              => \/ res.response[1].propstat[1].status = None
                 \/ EndsWith(res.response[1].propstat[1].status[1], "200 OK")
    /\ (ReadBody(3) /\ ret[3].tag = "Ok") =>
          \A i \in 1..Len(res.response) :
              (/\ SentAsAddressbook(res.response[i])
               /\ \A j \in 1..(i - 1) : ~SentAsAddressbook(res.response[j]))
                  => EndsWith(res.response[i].propstat[1].status[1], "200 OK")

\* The number of requests operation k has sent.
RequestsOf(k) == Cardinality({i \in 1..Len(requests) : requests[i].op = k})

\* C8: discovery is read-only and not retried: every request uses PROPFIND,
\* each operation that got past its start has sent exactly one request, the
\* others none, so that nothing is sent again after a failure.
C8_ReadOnlyOnce ==
    /\ \A i \in 1..Len(requests) : requests[i].method = "PROPFIND"
    /\ \A k \in Ops :
          RequestsOf(k) = IF k < op \/ (k = op /\ pc # "start") THEN 1 ELSE 0

\* The chain failed at its second operation, after two requests.
C8_Witness ==
    /\ Returned(2)
    /\ ret[2].tag = "Err"
    /\ Len(requests) = 2
    /\ requests[2].method = "PROPFIND"

\* C9: sync idempotence: when the change tag fetched in a cycle equals the
\* stored one, the cycle ends in UpToDate without a REPORT request and with
\* the stored change tag and record tags as they were when the cycle began.
C9_SyncIdempotence ==
    (/\ sync \in {"UpToDate", "RecordsFetching", "Reconciling", "Persisted"}
     /\ fetchedCtag = snapshot.ctag)
        => /\ sync = "UpToDate"
           /\ \A i \in 1..Len(sreqs) : sreqs[i] # "REPORT"
           /\ stored = snapshot

\* A second cycle, after one that persisted "abc123", finds the same tag.
C9_Witness ==
    /\ sync = "UpToDate"
    /\ runs >= 1
    /\ fetchedCtag = "abc123"
    /\ stored.ctag = "abc123"
    /\ stored.etags # NoEtags
    /\ \A i \in 1..Len(sreqs) : sreqs[i] # "REPORT"

\* C10: strict date parsing: a record response in which the getlastmodified
\* of any entry is not a valid RFC 2822 date fails to parse as a whole; a
\* parse that succeeds holds every entry with the instant of its own date.
C10_StrictDates ==
    (rparsed # Pending /\ rbody.kind = "xml") =>
        /\ (\E i \in 1..Len(rbody.response) :
               /\ rbody.response[i].propstat # None
               /\ rbody.response[i].propstat[1].prop[1].getlastmodified # None
               /\ rbody.response[i].propstat[1].prop[1].getlastmodified[1] \in InvalidDates)
              => rparsed.tag = "Err"
        /\ rparsed.tag = "Ok" =>
              /\ Len(rparsed.val.responses) = Len(rbody.response)
              /\ \A i \in 1..Len(rbody.response) :
                    /\ rbody.response[i].propstat[1].prop[1].getlastmodified[1] \in ValidDates
                    /\ rparsed.val.responses[i].propstat.prop.getlastmodified.value
                           = [secs |-> 1057049557, leap |-> FALSE]

\* The first record has a valid date, the second an invalid one.
C10_Witness ==
    /\ rparsed.tag = "Err"
    /\ Len(rbody.response) = 2
    /\ rbody.response[1].propstat # None
    /\ rbody.response[2].propstat # None
    /\ rbody.response[1].propstat[1].prop[1].getlastmodified
           = Some("Tue, 01 Jul 2003 10:52:37 +0200")
    /\ rbody.response[2].propstat[1].prop[1].getlastmodified
           = Some("Tue, 31 Jun 2003 10:52:37 +0200")

====
